---------------------------- MODULE Spec2Model ----------------------------
(***************************************************************************)
(* The permission decorators of evalbase (evalbase/decorators.py) as a     *)
(* state machine: an entity store (Conference, Organization, Task,         *)
(* Submission rows), and a request that runs through a chain of decorators *)
(* around a view function.                                                 *)
(***************************************************************************)
EXTENDS Naturals, Sequences, FiniteSets, TLC

(***************************************************************************)
(* The universe of the model.                                              *)
(***************************************************************************)
Users == {"U1", "U2", "U3"}

ConfNames == {"c1", "c2"}

OrgIds == {"o1", "o2"}

TaskIds == {"k1"}

\* A shortname / runtag that names no row.
NoSuch == "zz"

RunTags == {"run42", "run7"}

\* The most Submission rows the store holds at once.
MaxSubs == 1

\* The longest decorator chain around a view.
MaxChain == 2

VARIABLES conferences, organizations, tasks, submissions, req

vars == <<conferences, organizations, tasks, submissions, req>>

store == <<conferences, organizations, tasks, submissions>>

(***************************************************************************)
(* The rows of the store.  Organization shortnames are unique within a     *)
(* conference, Task shortnames within a conference, runtags within the     *)
(* tasks of a conference.                                                  *)
(***************************************************************************)
Conference == [complete : BOOLEAN]

Organization ==
    [shortname : {"acme"}, conference : ConfNames, owner : Users,
     members : SUBSET Users]

Task == [shortname : {"t1"}, conference : ConfNames, task_open : BOOLEAN]

Submission ==
    [runtag : RunTags, task : TaskIds, submitted_by : Users, org : OrgIds]

\* The conference a submission's task belongs to.
SubConf(s) == tasks[s.task].conference

(***************************************************************************)
(* Keyword arguments: a mapping from names to values.                      *)
(***************************************************************************)
EmptyKwargs == [k \in {} |-> ""]

ParamNames == {"org", "conf", "task", "runtag"}

ParamValues(k) ==
    CASE k = "conf"   -> ConfNames \cup {NoSuch}
      [] k = "org"    -> {"acme", NoSuch}
      [] k = "task"   -> {"t1", NoSuch}
      [] k = "runtag" -> {"run42", NoSuch}

AllParamValues == UNION {ParamValues(k) : k \in ParamNames}

\* Every mapping of some of the names P to values.
KwargsOver(P) ==
    UNION {{f \in [Q -> AllParamValues] : \A k \in Q : f[k] \in ParamValues(k)}
           : Q \in SUBSET P}

(***************************************************************************)
(* What a decorator's wrapped_view does: call view_func with kwargs        *)
(* extended, or raise.                                                     *)
(***************************************************************************)
CallView(attach) == [kind |-> "pass", reason |-> "", attach |-> attach]

Http404(msg) == [kind |-> "NotFound", reason |-> msg, attach |-> EmptyKwargs]

PermissionDenied(msg) ==
    [kind |-> "Forbidden", reason |-> msg, attach |-> EmptyKwargs]

\* Any other exception, named by its class.
Raise(cls) == [kind |-> cls, reason |-> "", attach |-> EmptyKwargs]

\* django.shortcuts.get_object_or_404 over the rows a query matches.
get_object_or_404(rows, klass) ==
    IF rows = {}
    THEN [found |-> FALSE,
          err |-> Http404("No " \o klass \o " matches the given query.")]
    ELSE IF Cardinality(rows) > 1
    THEN [found |-> FALSE, err |-> Raise("MultipleObjectsReturned")]
    ELSE [found |-> TRUE, obj |-> CHOOSE r \in rows : TRUE]


(***************************************************************************)
(* Queries.                                                                *)
(***************************************************************************)
\* Organization rows with shortname=org, conference__shortname=conf.
OrgsNamed(org, conf) ==
    {o \in OrgIds : /\ organizations[o].shortname = org
                    /\ organizations[o].conference = conf}

\* A variant without the conference filter.
OrgsOfMemberAnywhere(user, conf) ==
    {o \in OrgIds : user \in organizations[o].members}

\* Organization.objects.filter(conference__shortname=conf)
\*                     .filter(members__pk=user.pk)
OrgsOfMember(user, conf) ==
    {o \in OrgIds : /\ organizations[o].conference = conf
                    /\ user \in organizations[o].members}

\* The fields of Submission a lookup keyword can start with.
SubmissionFields == {"runtag", "task", "submitted_by", "org"}

\* QuerySet.filter(<field>=value): a keyword that names no field of the
\* model raises FieldError when filter() is called.
FilterSubmissions(rows, field, value) ==
    IF field \notin SubmissionFields
    THEN [ok |-> FALSE, err |-> Raise("FieldError")]
    ELSE [ok |-> TRUE, rows |-> {s \in rows : s[field] = value}]

(***************************************************************************)
(* The decorators: the outcome of wrapped_view for request.user = user and *)
(* the keyword arguments kwargs, read off the store.                       *)
(***************************************************************************)
\* A variant that forgets the owner test.
MembersOnlyMemberOfOrg(user, kwargs) ==
    IF "org" \notin DOMAIN kwargs \/ "conf" \notin DOMAIN kwargs
    THEN Http404("No such org or conf")
    ELSE LET r == get_object_or_404(OrgsNamed(kwargs["org"], kwargs["conf"]),
                                    "Organization")
         IN  IF ~r.found THEN r.err
             ELSE IF user \in organizations[r.obj].members
             THEN CallView("_org" :> r.obj)
             ELSE PermissionDenied("User is not member of org")

\* A variant that forgets the members test.
OwnerOnlyMemberOfOrg(user, kwargs) ==
    IF "org" \notin DOMAIN kwargs \/ "conf" \notin DOMAIN kwargs
    THEN Http404("No such org or conf")
    ELSE LET r == get_object_or_404(OrgsNamed(kwargs["org"], kwargs["conf"]),
                                    "Organization")
         IN  IF ~r.found THEN r.err
             ELSE IF organizations[r.obj].owner = user
             THEN CallView("_org" :> r.obj)
             ELSE PermissionDenied("User is not member of org")

user_is_member_of_org(user, kwargs) ==
    IF "org" \notin DOMAIN kwargs \/ "conf" \notin DOMAIN kwargs
    THEN Http404("No such org or conf")
    ELSE LET r == get_object_or_404(OrgsNamed(kwargs["org"], kwargs["conf"]),
                                    "Organization")
         IN  IF ~r.found THEN r.err
             ELSE IF \/ organizations[r.obj].owner = user
                     \/ user \in organizations[r.obj].members
             THEN CallView("_org" :> r.obj)
             ELSE PermissionDenied("User is not member of org")

\* A variant that lets members through, as user_is_member_of_org does.
MemberOwnsOrg(user, kwargs) ==
    IF "org" \notin DOMAIN kwargs \/ "conf" \notin DOMAIN kwargs
    THEN Http404("No such org or conf")
    ELSE LET r == get_object_or_404(OrgsNamed(kwargs["org"], kwargs["conf"]),
                                    "Organization")
         IN  IF ~r.found THEN r.err
             ELSE IF \/ organizations[r.obj].owner = user
                     \/ user \in organizations[r.obj].members
             THEN CallView("_org" :> r.obj)
             ELSE PermissionDenied("User is not org owner")

user_owns_org(user, kwargs) ==
    IF "org" \notin DOMAIN kwargs \/ "conf" \notin DOMAIN kwargs
    THEN Http404("No such org or conf")
    ELSE LET r == get_object_or_404(OrgsNamed(kwargs["org"], kwargs["conf"]),
                                    "Organization")
         IN  IF ~r.found THEN r.err
             ELSE IF organizations[r.obj].owner = user
             THEN CallView("_org" :> r.obj)
             ELSE PermissionDenied("User is not org owner")

user_is_active_participant(user, kwargs) ==
    IF "conf" \notin DOMAIN kwargs
    THEN Http404("No such conf")
    ELSE LET valid_orgs == OrgsOfMember(user, kwargs["conf"])
             subs ==
                 FilterSubmissions(
                     {s \in submissions : SubConf(s) = kwargs["conf"]},
                     "submitted_by_in", valid_orgs)
         IN  IF ~subs.ok THEN subs.err
             ELSE IF subs.rows # {}
             THEN CallView(("_valid_orgs" :> valid_orgs)
                           @@ ("_subs" :> subs.rows))
             ELSE PermissionDenied("User is not active participant")

user_is_participant(user, kwargs) ==
    IF "conf" \notin DOMAIN kwargs
    THEN Http404("No such conf")
    ELSE LET valid_orgs == OrgsOfMember(user, kwargs["conf"])
         IN  IF valid_orgs # {}
             THEN CallView("_valid_orgs" :> valid_orgs)
             ELSE PermissionDenied(
                      "User is not a member of a participating group")

\* A variant that lets every member of the submitting org edit.
AnyMemberMayEdit(user, kwargs) ==
    IF "conf" \notin DOMAIN kwargs \/ "runtag" \notin DOMAIN kwargs
    THEN Http404("No such conf or runtag")
    ELSE LET r == get_object_or_404(
                      {s \in submissions : /\ SubConf(s) = kwargs["conf"]
                                           /\ s.runtag = kwargs["runtag"]},
                      "Submission")
         IN  IF ~r.found THEN r.err
             ELSE IF \/ r.obj.submitted_by = user
                     \/ user = organizations[r.obj.org].owner
                     \/ user \in organizations[r.obj.org].members
             THEN CallView("_sub" :> r.obj)
             ELSE PermissionDenied("User may not edit submission")

user_may_edit_submission(user, kwargs) ==
    IF "conf" \notin DOMAIN kwargs \/ "runtag" \notin DOMAIN kwargs
    THEN Http404("No such conf or runtag")
    ELSE LET r == get_object_or_404(
                      {s \in submissions : /\ SubConf(s) = kwargs["conf"]
                                           /\ s.runtag = kwargs["runtag"]},
                      "Submission")
         IN  IF ~r.found THEN r.err
             ELSE IF \/ r.obj.submitted_by = user
                     \/ user = organizations[r.obj.org].owner
             THEN CallView("_sub" :> r.obj)
             ELSE PermissionDenied("User may not edit submission")

\* A variant with the test on complete inverted.
ConferenceIsComplete(user, kwargs) ==
    IF "conf" \notin DOMAIN kwargs
    THEN Http404("No such conf")
    ELSE LET r == get_object_or_404(
                      {n \in DOMAIN conferences : n = kwargs["conf"]},
                      "Conference")
         IN  IF ~r.found THEN r.err
             ELSE IF conferences[r.obj].complete
             THEN CallView("_conf" :> r.obj)
             ELSE PermissionDenied("Conference is not open")

\* A variant that takes a _conf attached by an earlier decorator as checked.
ConferenceIsOpenTrustsConf(user, kwargs) ==
    IF "conf" \notin DOMAIN kwargs
    THEN Http404("No such conf")
    ELSE IF "_conf" \in DOMAIN kwargs
    THEN CallView("_conf" :> kwargs["_conf"])
    ELSE LET r == get_object_or_404(
                      {n \in DOMAIN conferences : n = kwargs["conf"]},
                      "Conference")
         IN  IF ~r.found THEN r.err
             ELSE IF ~conferences[r.obj].complete
             THEN CallView("_conf" :> r.obj)
             ELSE PermissionDenied("Conference is not open")

conference_is_open(user, kwargs) ==
    IF "conf" \notin DOMAIN kwargs
    THEN Http404("No such conf")
    ELSE LET r == get_object_or_404(
                      {n \in DOMAIN conferences : n = kwargs["conf"]},
                      "Conference")
         IN  IF ~r.found THEN r.err
             ELSE IF ~conferences[r.obj].complete
             THEN CallView("_conf" :> r.obj)
             ELSE PermissionDenied("Conference is not open")

\* A variant that raises PermissionDenied for a missing keyword argument.
TaskIsOpenDeniesMissing(user, kwargs) ==
    IF "conf" \notin DOMAIN kwargs \/ "task" \notin DOMAIN kwargs
    THEN PermissionDenied("No such conf or task")
    ELSE LET conf == get_object_or_404(
                         {n \in DOMAIN conferences : n = kwargs["conf"]},
                         "Conference")
         IN  IF ~conf.found THEN conf.err
             ELSE LET task == get_object_or_404(
                                  {k \in DOMAIN tasks :
                                      /\ tasks[k].shortname = kwargs["task"]
                                      /\ tasks[k].conference = conf.obj},
                                  "Task")
                  IN  IF ~task.found THEN task.err
                      ELSE IF tasks[task.obj].task_open
                      THEN CallView(("_conf" :> conf.obj)
                                    @@ ("_task" :> task.obj))
                      ELSE PermissionDenied("Task is not open")

\* A variant that also wants the conference not complete.
TaskIsOpenInOpenConference(user, kwargs) ==
    IF "conf" \notin DOMAIN kwargs \/ "task" \notin DOMAIN kwargs
    THEN Http404("No such conf or task")
    ELSE LET conf == get_object_or_404(
                         {n \in DOMAIN conferences : n = kwargs["conf"]},
                         "Conference")
         IN  IF ~conf.found THEN conf.err
             ELSE LET task == get_object_or_404(
                                  {k \in DOMAIN tasks :
                                      /\ tasks[k].shortname = kwargs["task"]
                                      /\ tasks[k].conference = conf.obj},
                                  "Task")
                  IN  IF ~task.found THEN task.err
                      ELSE IF /\ tasks[task.obj].task_open
                              /\ ~conferences[conf.obj].complete
                      THEN CallView(("_conf" :> conf.obj)
                                    @@ ("_task" :> task.obj))
                      ELSE PermissionDenied("Task is not open")

task_is_open(user, kwargs) ==
    IF "conf" \notin DOMAIN kwargs \/ "task" \notin DOMAIN kwargs
    THEN Http404("No such conf or task")
    ELSE LET conf == get_object_or_404(
                         {n \in DOMAIN conferences : n = kwargs["conf"]},
                         "Conference")
         IN  IF ~conf.found THEN conf.err
             ELSE LET task == get_object_or_404(
                                  {k \in DOMAIN tasks :
                                      /\ tasks[k].shortname = kwargs["task"]
                                      /\ tasks[k].conference = conf.obj},
                                  "Task")
                  IN  IF ~task.found THEN task.err
                      ELSE IF tasks[task.obj].task_open
                      THEN CallView(("_conf" :> conf.obj)
                                    @@ ("_task" :> task.obj))
                      ELSE PermissionDenied("Task is not open")

Guards ==
    {"user_is_member_of_org", "user_owns_org", "user_is_active_participant",
     "user_is_participant", "user_may_edit_submission", "conference_is_open",
     "task_is_open"}

\* The keyword arguments each decorator looks for.
Required(g) ==
    CASE g = "user_is_member_of_org"      -> {"org", "conf"}
      [] g = "user_owns_org"              -> {"org", "conf"}
      [] g = "user_is_active_participant" -> {"conf"}
      [] g = "user_is_participant"        -> {"conf"}
      [] g = "user_may_edit_submission"   -> {"conf", "runtag"}
      [] g = "conference_is_open"         -> {"conf"}
      [] g = "task_is_open"               -> {"conf", "task"}


\* wrapped_view of decorator g.
Decorator(g, user, kwargs) ==
    CASE g = "user_is_member_of_org"      -> user_is_member_of_org(user, kwargs)
      [] g = "user_owns_org"              -> user_owns_org(user, kwargs)
      [] g = "user_is_active_participant" ->
             user_is_active_participant(user, kwargs)
      [] g = "user_is_participant"        -> user_is_participant(user, kwargs)
      [] g = "user_may_edit_submission"   ->
             user_may_edit_submission(user, kwargs)
      [] g = "conference_is_open"         -> conference_is_open(user, kwargs)
      [] g = "task_is_open"               -> task_is_open(user, kwargs)

(***************************************************************************)
(* Decorator chains: chain[1] is the outermost decorator, the one written  *)
(* first above the view.                                                   *)
(***************************************************************************)
Range(f) == {f[i] : i \in DOMAIN f}

\* The sets of decorators stacked on one view.
Stacks ==
    {{g} : g \in Guards}
    \cup {{"conference_is_open", "task_is_open"},
          {"user_is_member_of_org", "user_owns_org"},
          {"conference_is_open", "user_is_member_of_org"},
          {"user_is_participant", "user_may_edit_submission"},
          {"user_is_participant", "user_is_active_participant"},
          {"conference_is_open", "task_is_open", "user_is_member_of_org"}}

\* Every order in which a stack of at most MaxChain decorators is written.
Chains ==
    UNION {{ch \in [1..Cardinality(st) -> st] : Range(ch) = st}
           : st \in {x \in Stacks : Cardinality(x) <= MaxChain}}

\* Every order in which the decorators st can be written.
Orderings(st) == {ch \in [1..Cardinality(st) -> st] : Range(ch) = st}

\* The wrappers ch[i], ch[i+1], ... around the view, called with kwargs and
\* run to the end against the store as it is: whether the view is called,
\* and with which kwargs, or else the exception.
RECURSIVE RunChain(_, _, _, _)
RunChain(ch, i, user, kwargs) ==
    IF i > Len(ch)
    THEN [invoked |-> TRUE, kwargs |-> kwargs,
          result |-> [kind |-> "response", reason |-> ""]]
    ELSE LET r == Decorator(ch[i], user, kwargs)
         IN  IF r.kind = "pass"
             THEN RunChain(ch, i + 1, user, r.attach @@ kwargs)
             ELSE [invoked |-> FALSE, kwargs |-> EmptyKwargs,
                   result |-> [kind |-> r.kind, reason |-> r.reason]]

RequiredBy(ch) == UNION {Required(g) : g \in Range(ch)}

(***************************************************************************)
(* The request.  state: "idle" (none yet), "guards" (inside the wrappers;  *)
(* chain[pc] is the next to run, or the view when pc > Len(chain)), "done" *)
(* (returned or raised).  log: the decorators entered so far; calls: how   *)
(* often the view ran; result: how the request ended; params: the path     *)
(* parameters the request came with.                                       *)
(***************************************************************************)
NoResult == [kind |-> "", reason |-> ""]

NoRequest ==
    [state |-> "idle", user |-> "", kwargs |-> EmptyKwargs, chain |-> <<>>,
     pc |-> 0, log |-> <<>>, calls |-> 0, result |-> NoResult,
     params |-> EmptyKwargs]

Init ==
    /\ conferences = [c \in ConfNames |-> [complete |-> FALSE]]
    /\ organizations =
           ("o1" :> [shortname |-> "acme", conference |-> "c1",
                     owner |-> "U1", members |-> {"U2", "U3"}])
        @@ ("o2" :> [shortname |-> "acme", conference |-> "c2",
                     owner |-> "U2", members |-> {"U1"}])
    /\ tasks = ("k1" :> [shortname |-> "t1", conference |-> "c1",
                         task_open |-> FALSE])
    /\ submissions = {}
    /\ req = NoRequest

\* The URL resolver calls the outermost wrapper with the principal and the
\* path parameters.
StartRequest(u, ch, kw) ==
    /\ req.state = "idle"
    /\ req' = [state |-> "guards", user |-> u, kwargs |-> kw, chain |-> ch,
               pc |-> 1, log |-> <<>>, calls |-> 0, result |-> NoResult,
               params |-> kw]
    /\ UNCHANGED store

\* A variant that notes the failure and calls view_func all the same.
WrappedFallsThrough(g, r) ==
    /\ req.state = "guards"
    /\ req.pc <= Len(req.chain)
    /\ req.chain[req.pc] = g
    /\ req' = IF r.kind = "pass"
              THEN [req EXCEPT !.kwargs = r.attach @@ req.kwargs,
                               !.pc = req.pc + 1,
                               !.log = Append(req.log, g)]
              ELSE [req EXCEPT !.pc = req.pc + 1,
                               !.log = Append(req.log, g),
                               !.result = [kind |-> r.kind,
                                           reason |-> r.reason]]
    /\ UNCHANGED store

\* A variant that calls view_func with the attachments alone.
WrappedDropsKwargs(g, r) ==
    /\ req.state = "guards"
    /\ req.pc <= Len(req.chain)
    /\ req.chain[req.pc] = g
    /\ req' = IF r.kind = "pass"
              THEN [req EXCEPT !.kwargs = r.attach,
                               !.pc = req.pc + 1,
                               !.log = Append(req.log, g)]
              ELSE [req EXCEPT !.state = "done",
                               !.log = Append(req.log, g),
                               !.result = [kind |-> r.kind,
                                           reason |-> r.reason]]
    /\ UNCHANGED store

\* A variant that enrols the user in the org it has resolved.
WrappedJoinsOrg(g, r) ==
    /\ req.state = "guards"
    /\ req.pc <= Len(req.chain)
    /\ req.chain[req.pc] = g
    /\ req' = IF r.kind = "pass"
              THEN [req EXCEPT !.kwargs = r.attach @@ req.kwargs,
                               !.pc = req.pc + 1,
                               !.log = Append(req.log, g)]
              ELSE [req EXCEPT !.state = "done",
                               !.log = Append(req.log, g),
                               !.result = [kind |-> r.kind,
                                           reason |-> r.reason]]
    /\ organizations' =
           IF r.kind = "pass" /\ "_org" \in DOMAIN r.attach
           THEN [organizations EXCEPT
                     ![r.attach["_org"]].members = @ \cup {req.user}]
           ELSE organizations
    /\ UNCHANGED <<conferences, tasks, submissions>>

\* wrapped_view of decorator g runs: it calls view_func (the next wrapper or
\* the view) with the extended kwargs, or raises.
Wrapped(g, r) ==
    /\ req.state = "guards"
    /\ req.pc <= Len(req.chain)
    /\ req.chain[req.pc] = g
    /\ req' = IF r.kind = "pass"
              THEN [req EXCEPT !.kwargs = r.attach @@ req.kwargs,
                               !.pc = req.pc + 1,
                               !.log = Append(req.log, g)]
              ELSE [req EXCEPT !.state = "done",
                               !.log = Append(req.log, g),
                               !.result = [kind |-> r.kind,
                                           reason |-> r.reason]]
    /\ UNCHANGED store

UserIsMemberOfOrg ==
    Wrapped("user_is_member_of_org",
            user_is_member_of_org(req.user, req.kwargs))

UserOwnsOrg ==
    Wrapped("user_owns_org", user_owns_org(req.user, req.kwargs))

UserIsActiveParticipant ==
    Wrapped("user_is_active_participant",
            user_is_active_participant(req.user, req.kwargs))

UserIsParticipant ==
    Wrapped("user_is_participant", user_is_participant(req.user, req.kwargs))

UserMayEditSubmission ==
    Wrapped("user_may_edit_submission",
            user_may_edit_submission(req.user, req.kwargs))

ConferenceIsOpen ==
    Wrapped("conference_is_open", conference_is_open(req.user, req.kwargs))

TaskIsOpen ==
    Wrapped("task_is_open", task_is_open(req.user, req.kwargs))

\* The innermost view_func runs and returns its response.
View ==
    /\ req.state = "guards"
    /\ req.pc > Len(req.chain)
    /\ req' = [req EXCEPT !.state = "done", !.calls = req.calls + 1,
                          !.result = [kind |-> "response", reason |-> ""]]
    /\ UNCHANGED store

\* The response or the exception has gone back to the framework.
Finish ==
    /\ req.state = "done"
    /\ req' = NoRequest
    /\ UNCHANGED store

(***************************************************************************)
(* Other handlers and the admin change the store.                          *)
(***************************************************************************)
MutableOrgs == {"o1"}

MutableConfs == {"c1"}

\* The users who file runs.
Submitters == {"U3"}

AddMember(o, u) ==
    /\ u \notin organizations[o].members
    /\ organizations' =
           [organizations EXCEPT ![o].members = organizations[o].members \cup {u}]
    /\ UNCHANGED <<conferences, tasks, submissions, req>>

RemoveMember(o, u) ==
    /\ u \in organizations[o].members
    /\ organizations' =
           [organizations EXCEPT ![o].members = organizations[o].members \ {u}]
    /\ UNCHANGED <<conferences, tasks, submissions, req>>

SetComplete(c, b) ==
    /\ conferences[c].complete # b
    /\ conferences' = [conferences EXCEPT ![c].complete = b]
    /\ UNCHANGED <<organizations, tasks, submissions, req>>

SetTaskOpen(k, b) ==
    /\ tasks[k].task_open # b
    /\ tasks' = [tasks EXCEPT ![k].task_open = b]
    /\ UNCHANGED <<conferences, organizations, submissions, req>>

\* A run is filed by an org of the task's conference; its runtag is new
\* among the conference's submissions.
AddSubmission(s) ==
    /\ Cardinality(submissions) < MaxSubs
    /\ organizations[s.org].conference = SubConf(s)
    /\ \A x \in submissions : SubConf(x) = SubConf(s) => x.runtag # s.runtag
    /\ submissions' = submissions \cup {s}
    /\ UNCHANGED <<conferences, organizations, tasks, req>>

DeleteSubmission(s) ==
    /\ s \in submissions
    /\ submissions' = submissions \ {s}
    /\ UNCHANGED <<conferences, organizations, tasks, req>>

Next ==
    \/ \E u \in Users, ch \in Chains :
           \E kw \in KwargsOver(RequiredBy(ch)) : StartRequest(u, ch, kw)
    \/ UserIsMemberOfOrg
    \/ UserOwnsOrg
    \/ UserIsActiveParticipant
    \/ UserIsParticipant
    \/ UserMayEditSubmission
    \/ ConferenceIsOpen
    \/ TaskIsOpen
    \/ View
    \/ Finish
    \/ \E o \in MutableOrgs, u \in Users : AddMember(o, u)
    \/ \E o \in MutableOrgs, u \in Users : RemoveMember(o, u)
    \/ \E c \in MutableConfs, b \in BOOLEAN : SetComplete(c, b)
    \/ \E k \in TaskIds, b \in BOOLEAN : SetTaskOpen(k, b)
    \/ \E s \in Submission : s.submitted_by \in Submitters /\ AddSubmission(s)
    \/ \E s \in Submission : DeleteSubmission(s)

Spec == Init /\ [][Next]_vars


(***************************************************************************)
(* Several requests at once.  Under SpecC req maps each worker to the      *)
(* request it is handling, a record as above with one more field: clean,   *)
(* true as long as no table has changed since the request came in.         *)
(***************************************************************************)
Workers == {"w1", "w2"}

\* The requests the workers get.
CUsers == {"U1", "U2"}

CChains ==
    {<<"user_is_member_of_org">>,
     <<"conference_is_open", "user_is_member_of_org">>}

CKwargs == {("conf" :> "c1") @@ ("org" :> "acme")}

CNoRequest ==
    [state |-> "idle", user |-> "", kwargs |-> EmptyKwargs, chain |-> <<>>,
     pc |-> 0, log |-> <<>>, calls |-> 0, result |-> NoResult,
     params |-> EmptyKwargs, clean |-> TRUE]

InitC ==
    /\ conferences = [c \in ConfNames |-> [complete |-> FALSE]]
    /\ organizations =
           ("o1" :> [shortname |-> "acme", conference |-> "c1",
                     owner |-> "U1", members |-> {"U2", "U3"}])
        @@ ("o2" :> [shortname |-> "acme", conference |-> "c2",
                     owner |-> "U2", members |-> {"U1"}])
    /\ tasks = ("k1" :> [shortname |-> "t1", conference |-> "c1",
                         task_open |-> FALSE])
    /\ submissions = {}
    /\ req = [w \in Workers |-> CNoRequest]

CStartRequest(w, u, ch, kw) ==
    /\ req[w].state = "idle"
    /\ req' = [req EXCEPT ![w] =
                   [state |-> "guards", user |-> u, kwargs |-> kw,
                    chain |-> ch, pc |-> 1, log |-> <<>>, calls |-> 0,
                    result |-> NoResult, params |-> kw, clean |-> TRUE]]
    /\ UNCHANGED store

\* wrapped_view, had it gone on to the next stage after a failed check.
CWrappedFallsThrough(w) ==
    /\ req[w].state = "guards"
    /\ req[w].pc <= Len(req[w].chain)
    /\ LET g == req[w].chain[req[w].pc]
           r == Decorator(g, req[w].user, req[w].kwargs)
       IN  req' = [req EXCEPT ![w] =
                       [@ EXCEPT !.kwargs = r.attach @@ @,
                                 !.pc = @ + 1,
                                 !.log = Append(@, g)]]
    /\ UNCHANGED store

\* wrapped_view, had the decorators kept what they attach in one dict of
\* the module, shared by the requests in hand.
CWrappedSharesKwargs(w) ==
    /\ req[w].state = "guards"
    /\ req[w].pc <= Len(req[w].chain)
    /\ LET g == req[w].chain[req[w].pc]
           r == Decorator(g, req[w].user, req[w].kwargs)
       IN  req' = [v \in Workers |->
                       IF v = w
                       THEN IF r.kind = "pass"
                            THEN [req[v] EXCEPT !.kwargs = r.attach @@ @,
                                                !.pc = @ + 1,
                                                !.log = Append(@, g)]
                            ELSE [req[v] EXCEPT !.state = "done",
                                                !.log = Append(@, g),
                                                !.result = [kind |-> r.kind,
                                                            reason |-> r.reason]]
                       ELSE IF r.kind = "pass" /\ req[v].state = "guards"
                            THEN [req[v] EXCEPT !.kwargs = r.attach @@ @]
                            ELSE req[v]]
    /\ UNCHANGED store

\* wrapped_view of the next decorator of worker w's request.
CWrapped(w) ==
    /\ req[w].state = "guards"
    /\ req[w].pc <= Len(req[w].chain)
    /\ LET g == req[w].chain[req[w].pc]
           r == Decorator(g, req[w].user, req[w].kwargs)
       IN  req' = [req EXCEPT ![w] =
                       IF r.kind = "pass"
                       THEN [@ EXCEPT !.kwargs = r.attach @@ @,
                                      !.pc = @ + 1,
                                      !.log = Append(@, g)]
                       ELSE [@ EXCEPT !.state = "done",
                                      !.log = Append(@, g),
                                      !.result = [kind |-> r.kind,
                                                  reason |-> r.reason]]]
    /\ UNCHANGED store

CView(w) ==
    /\ req[w].state = "guards"
    /\ req[w].pc > Len(req[w].chain)
    /\ req' = [req EXCEPT ![w] =
                   [@ EXCEPT !.state = "done", !.calls = @ + 1,
                             !.result = [kind |-> "response", reason |-> ""]]]
    /\ UNCHANGED store

CFinish(w) ==
    /\ req[w].state = "done"
    /\ req' = [req EXCEPT ![w] = CNoRequest]
    /\ UNCHANGED store

\* A table changes: no request in hand has seen an unchanged store.
Stale ==
    [w \in Workers |->
        IF req[w].state = "idle" THEN req[w]
        ELSE [req[w] EXCEPT !.clean = FALSE]]

CAddMember(o, u) ==
    /\ u \notin organizations[o].members
    /\ organizations' =
           [organizations EXCEPT ![o].members = organizations[o].members \cup {u}]
    /\ req' = Stale
    /\ UNCHANGED <<conferences, tasks, submissions>>

CRemoveMember(o, u) ==
    /\ u \in organizations[o].members
    /\ organizations' =
           [organizations EXCEPT ![o].members = organizations[o].members \ {u}]
    /\ req' = Stale
    /\ UNCHANGED <<conferences, tasks, submissions>>

CSetComplete(c, b) ==
    /\ conferences[c].complete # b
    /\ conferences' = [conferences EXCEPT ![c].complete = b]
    /\ req' = Stale
    /\ UNCHANGED <<organizations, tasks, submissions>>

NextC ==
    \/ \E w \in Workers, u \in CUsers, ch \in CChains, kw \in CKwargs :
           CStartRequest(w, u, ch, kw)
    \/ \E w \in Workers : CWrapped(w)
    \/ \E w \in Workers : CView(w)
    \/ \E w \in Workers : CFinish(w)
    \/ \E o \in MutableOrgs : CAddMember(o, "U2")
    \/ \E o \in MutableOrgs : CRemoveMember(o, "U2")
    \/ \E c \in MutableConfs, b \in BOOLEAN : CSetComplete(c, b)

SpecC == InitC /\ [][NextC]_vars

(***************************************************************************)
(* Properties.                                                             *)
(***************************************************************************)
\* This step is wrapped_view of decorator g.
Ran(g) ==
    /\ req.state = "guards"
    /\ req.pc <= Len(req.chain)
    /\ req.chain[req.pc] = g
    /\ req'.log = Append(req.log, g)

\* The step called the next stage with the kwargs extended by att.
Forwarded(att) ==
    /\ req'.state = "guards"
    /\ req'.pc = req.pc + 1
    /\ req'.calls = 0
    /\ DOMAIN req'.kwargs = DOMAIN req.kwargs \cup DOMAIN att
    /\ \A k \in DOMAIN att : req'.kwargs[k] = att[k]

\* The step ended the request with a failure, the view not called.
Aborted(kind, reason) ==
    /\ req'.state = "done"
    /\ req'.result = [kind |-> kind, reason |-> reason]
    /\ req'.calls = 0

\* The orgs under conf the user belongs to: as owner or as member.
BelongsTo(user, conf) ==
    {o \in OrgIds : /\ organizations[o].conference = conf
                    /\ \/ organizations[o].owner = user
                       \/ user \in organizations[o].members}

\* C1: user_is_member_of_org, with the org resolved from (org, conf), calls
\* the next stage with _org = the org iff the user is the org's owner or in
\* its members; otherwise it fails with Forbidden "User is not member of
\* org" and the handler is not called.
C1_MemberOfOrg ==
    [][\A o \in OrgIds :
          (/\ Ran("user_is_member_of_org")
           /\ {"org", "conf"} \subseteq DOMAIN req.kwargs
           /\ organizations[o].shortname = req.kwargs["org"]
           /\ organizations[o].conference = req.kwargs["conf"])
          => IF \/ req.user = organizations[o].owner
                \/ req.user \in organizations[o].members
             THEN Forwarded("_org" :> o)
             ELSE Aborted("Forbidden", "User is not member of org")]_vars

\* A member who is not the owner got through to the view, with _org.
C1_Witness ==
    /\ req.chain = <<"user_is_member_of_org">>
    /\ req.calls = 1
    /\ "_org" \in DOMAIN req.kwargs
    /\ req.kwargs["_org"] = "o1"
    /\ req.user # organizations["o1"].owner
    /\ req.user \in organizations["o1"].members

\* C2: user_owns_org, with the org resolved from (org, conf), calls the
\* next stage iff the user is the org's owner; a member who is not the
\* owner is rejected with Forbidden "User is not org owner", although
\* user_is_member_of_org passes for the same request.
C2_OwnsOrg ==
    [][\A o \in OrgIds :
          (/\ Ran("user_owns_org")
           /\ {"org", "conf"} \subseteq DOMAIN req.kwargs
           /\ organizations[o].shortname = req.kwargs["org"]
           /\ organizations[o].conference = req.kwargs["conf"])
          => /\ IF req.user = organizations[o].owner
                THEN Forwarded("_org" :> o)
                ELSE Aborted("Forbidden", "User is not org owner")
             /\ (/\ req.user \in organizations[o].members
                 /\ req.user # organizations[o].owner)
                => user_is_member_of_org(req.user, req.kwargs).kind = "pass"
       ]_vars

\* A member passed user_is_member_of_org and was then rejected by
\* user_owns_org in the same request.
C2_Witness ==
    /\ req.chain = <<"user_is_member_of_org", "user_owns_org">>
    /\ req.log = req.chain
    /\ req.state = "done"
    /\ req.result = [kind |-> "Forbidden", reason |-> "User is not org owner"]
    /\ req.kwargs["_org"] = "o1"
    /\ req.user \in organizations["o1"].members

\* C3: user_is_participant calls the next stage iff the user belongs, as
\* owner or as member, to at least one org under conf; then _valid_orgs is
\* exactly the set of those orgs; otherwise it fails with Forbidden "User is
\* not a member of a participating group".
C3_Participant ==
    [][(/\ Ran("user_is_participant")
        /\ "conf" \in DOMAIN req.kwargs)
       => IF BelongsTo(req.user, req.kwargs["conf"]) # {}
          THEN Forwarded("_valid_orgs" :> BelongsTo(req.user,
                                                    req.kwargs["conf"]))
          ELSE Aborted("Forbidden",
                       "User is not a member of a participating group")]_vars

\* C4: user_is_active_participant calls the next stage iff the user's orgs
\* under conf are not empty and a Submission exists whose task is of conf
\* and whose org is among them; then _valid_orgs and _subs are those orgs
\* and submissions; otherwise Forbidden "User is not active participant".
C4_ActiveParticipant ==
    [][(/\ Ran("user_is_active_participant")
        /\ "conf" \in DOMAIN req.kwargs)
       => LET orgs == BelongsTo(req.user, req.kwargs["conf"])
              subs == {s \in submissions : /\ SubConf(s) = req.kwargs["conf"]
                                           /\ s.org \in orgs}
          IN  IF subs # {}
              THEN Forwarded(("_valid_orgs" :> orgs) @@ ("_subs" :> subs))
              ELSE Aborted("Forbidden", "User is not active participant")
       ]_vars

\* C5: user_may_edit_submission, with the submission resolved from (conf,
\* runtag), calls the next stage with _sub iff the user is its submitted_by
\* or the owner of its org; every other user, other members of the org
\* included, is rejected with Forbidden "User may not edit submission".
C5_MayEditSubmission ==
    [][\A s \in submissions :
          (/\ Ran("user_may_edit_submission")
           /\ {"conf", "runtag"} \subseteq DOMAIN req.kwargs
           /\ tasks[s.task].conference = req.kwargs["conf"]
           /\ s.runtag = req.kwargs["runtag"])
          => IF \/ req.user = s.submitted_by
                \/ req.user = organizations[s.org].owner
             THEN Forwarded("_sub" :> s)
             ELSE Aborted("Forbidden", "User may not edit submission")]_vars

\* A member of the submitting org, neither submitter nor owner, was
\* rejected.
C5_Witness ==
    /\ req.chain = <<"user_may_edit_submission">>
    /\ req.state = "done"
    /\ req.result =
           [kind |-> "Forbidden", reason |-> "User may not edit submission"]
    /\ \E s \in submissions :
           /\ s.runtag = req.kwargs["runtag"]
           /\ SubConf(s) = req.kwargs["conf"]
           /\ req.user \in organizations[s.org].members
           /\ req.user # s.submitted_by
           /\ req.user # organizations[s.org].owner

\* C6: a decorator that misses one of its keyword arguments fails with
\* NotFound, not Forbidden, and calls neither the next stage nor the view.
C6_MissingParameter ==
    [][\A g \in Guards :
          (/\ Ran(g)
           /\ ~(Required(g) \subseteq DOMAIN req.kwargs))
          => /\ req'.state = "done"
             /\ req'.result.kind = "NotFound"
             /\ req'.calls = 0
             /\ req'.kwargs = req.kwargs]_vars

\* task_is_open, given conf but no task, ended the request with NotFound.
C6_Witness ==
    /\ req.chain = <<"task_is_open">>
    /\ req.state = "done"
    /\ "conf" \in DOMAIN req.kwargs
    /\ "task" \notin DOMAIN req.kwargs
    /\ req.calls = 0
    /\ req.result = [kind |-> "NotFound", reason |-> "No such conf or task"]

\* The natural key decorator g takes from kwargs names no row.
Unresolved(g, kwargs) ==
    \/ kwargs["conf"] \notin DOMAIN conferences
    \/ /\ g \in {"user_is_member_of_org", "user_owns_org"}
       /\ ~\E o \in OrgIds : /\ organizations[o].shortname = kwargs["org"]
                             /\ organizations[o].conference = kwargs["conf"]
    \/ /\ g = "task_is_open"
       /\ ~\E k \in DOMAIN tasks : /\ tasks[k].shortname = kwargs["task"]
                                   /\ tasks[k].conference = kwargs["conf"]
    \/ /\ g = "user_may_edit_submission"
       /\ ~\E s \in submissions : /\ s.runtag = kwargs["runtag"]
                                  /\ SubConf(s) = kwargs["conf"]

\* C7: a decorator whose natural key (the conf shortname in particular)
\* names no row fails with NotFound, whoever asks, and never with Forbidden.
C7_UnresolvedKey ==
    [][\A g \in Guards :
          (/\ Ran(g)
           /\ Required(g) \subseteq DOMAIN req.kwargs
           /\ Unresolved(g, req.kwargs))
          => /\ req'.state = "done"
             /\ req'.result.kind = "NotFound"]_vars

\* The keys a decorator that passed has put into kwargs.
Attaches(g) ==
    CASE g = "user_is_member_of_org"      -> {"_org"}
      [] g = "user_owns_org"              -> {"_org"}
      [] g = "user_is_active_participant" -> {"_valid_orgs", "_subs"}
      [] g = "user_is_participant"        -> {"_valid_orgs"}
      [] g = "user_may_edit_submission"   -> {"_sub"}
      [] g = "conference_is_open"         -> {"_conf"}
      [] g = "task_is_open"               -> {"_conf", "_task"}

\* The reason a decorator gives when its predicate fails.
Denial(g) ==
    CASE g = "user_is_member_of_org"      -> "User is not member of org"
      [] g = "user_owns_org"              -> "User is not org owner"
      [] g = "user_is_active_participant" -> "User is not active participant"
      [] g = "user_is_participant"        ->
             "User is not a member of a participating group"
      [] g = "user_may_edit_submission"   -> "User may not edit submission"
      [] g = "conference_is_open"         -> "Conference is not open"
      [] g = "task_is_open"               -> "Task is not open"

\* The messages of a decorator's own Http404.
Missing(g) ==
    CASE g = "user_is_member_of_org"      ->
             {"No such org or conf", "No Organization matches the given query."}
      [] g = "user_owns_org"              ->
             {"No such org or conf", "No Organization matches the given query."}
      [] g = "user_is_active_participant" -> {"No such conf"}
      [] g = "user_is_participant"        -> {"No such conf"}
      [] g = "user_may_edit_submission"   ->
             {"No such conf or runtag",
              "No Submission matches the given query."}
      [] g = "conference_is_open"         ->
             {"No such conf", "No Conference matches the given query."}
      [] g = "task_is_open"               ->
             {"No such conf or task", "No Conference matches the given query.",
              "No Task matches the given query."}

\* C8: the decorators of a chain run in the order written; the view runs,
\* once, iff every one of them passed; after the first failure no later
\* decorator runs, the view never runs, and the request ends with that
\* decorator's own failure.
C8_Chain ==
    /\ Len(req.log) <= Len(req.chain)
    /\ \A i \in 1..Len(req.log) : req.log[i] = req.chain[i]
    /\ req.calls <= 1
    /\ req.calls = 1 <=> (req.state = "done" /\ req.result.kind = "response")
    /\ req.state = "guards"
       => /\ req.result = NoResult
          /\ req.pc = Len(req.log) + 1
          /\ \A i \in 1..Len(req.log) :
                 Attaches(req.log[i]) \subseteq DOMAIN req.kwargs
    /\ req.calls = 1
       => /\ req.log = req.chain
          /\ \A i \in 1..Len(req.chain) :
                 Attaches(req.chain[i]) \subseteq DOMAIN req.kwargs
    /\ (req.state = "done" /\ req.result.kind # "response")
       => /\ req.log # <<>>
          /\ req.pc = Len(req.log)
          /\ \A i \in 1..(Len(req.log) - 1) :
                 Attaches(req.log[i]) \subseteq DOMAIN req.kwargs
          /\ LET g == req.log[Len(req.log)]
             IN  \/ /\ req.result.kind = "Forbidden"
                    /\ req.result.reason = Denial(g)
                 \/ /\ req.result.kind = "NotFound"
                    /\ req.result.reason \in Missing(g)
                 \/ /\ req.result.kind = "FieldError"
                    /\ g = "user_is_active_participant"

\* The first of two decorators passed, the second failed: the request ended
\* there and the view did not run.
C8_Witness ==
    /\ req.chain = <<"conference_is_open", "task_is_open">>
    /\ req.log = req.chain
    /\ req.state = "done"
    /\ req.calls = 0
    /\ "_conf" \in DOMAIN req.kwargs
    /\ "_task" \notin DOMAIN req.kwargs
    /\ req.result = [kind |-> "Forbidden", reason |-> "Task is not open"]

\* C9: a decorator ends by calling the next stage, or with NotFound, or
\* with Forbidden, and in no other way.
C9_ThreeOutcomes ==
    req.result.kind \in {"", "response", "NotFound", "Forbidden"}

\* C10: conference_is_open, for an existing conference, calls the next
\* stage with _conf iff complete is false; setting complete turns a passing
\* request into Forbidden "Conference is not open", and clearing it back.
C10_ConferenceIsOpen ==
    [][/\ \A c \in DOMAIN conferences :
             (/\ Ran("conference_is_open")
              /\ "conf" \in DOMAIN req.kwargs
              /\ req.kwargs["conf"] = c)
             => IF ~conferences[c].complete
                THEN Forwarded("_conf" :> c)
                ELSE Aborted("Forbidden", "Conference is not open")
       /\ \A c \in DOMAIN conferences, u \in Users :
             conferences'[c].complete # conferences[c].complete
             => LET before == conference_is_open(u, "conf" :> c)
                    after == conference_is_open(u, "conf" :> c)'
                IN  IF conferences'[c].complete
                    THEN /\ before = CallView("_conf" :> c)
                         /\ after = PermissionDenied("Conference is not open")
                    ELSE /\ before = PermissionDenied("Conference is not open")
                         /\ after = CallView("_conf" :> c)]_vars

\* The conference was completed and a request was then turned away.
C10_Witness ==
    /\ req.chain = <<"conference_is_open">>
    /\ req.state = "done"
    /\ req.kwargs = ("conf" :> "c1")
    /\ conferences["c1"].complete
    /\ req.result = [kind |-> "Forbidden", reason |-> "Conference is not open"]


\* C11: task_is_open, for an existing task of an existing conference, calls
\* the next stage with _conf and _task iff task_open is true, whatever the
\* conference's complete flag; otherwise it fails with Forbidden "Task is
\* not open" and has attached nothing.
C11_TaskIsOpen ==
    [][\A k \in DOMAIN tasks :
          (/\ Ran("task_is_open")
           /\ {"conf", "task"} \subseteq DOMAIN req.kwargs
           /\ tasks[k].shortname = req.kwargs["task"]
           /\ tasks[k].conference = req.kwargs["conf"])
          => IF tasks[k].task_open
             THEN Forwarded(("_conf" :> req.kwargs["conf"]) @@ ("_task" :> k))
             ELSE /\ Aborted("Forbidden", "Task is not open")
                  /\ req'.kwargs = req.kwargs]_vars

\* An open task of a complete conference let the request through.
C11_Witness ==
    /\ req.chain = <<"task_is_open">>
    /\ req.calls = 1
    /\ conferences["c1"].complete
    /\ tasks["k1"].task_open
    /\ req.kwargs = ("conf" :> "c1") @@ ("task" :> "t1")
                    @@ ("_conf" :> "c1") @@ ("_task" :> "k1")

\* The keys the decorators attach.
Reserved == UNION {Attaches(g) : g \in Guards}

\* C12: the view gets the path parameters it came with, each with its
\* value, plus the keys the decorators of the chain attach, and nothing
\* else.
C12_HandlerContext ==
    /\ DOMAIN req.params \cap Reserved = {}
    /\ req.calls = 1
       => /\ DOMAIN req.kwargs
               = DOMAIN req.params
                 \cup UNION {Attaches(req.chain[i]) : i \in 1..Len(req.chain)}
          /\ \A k \in DOMAIN req.params : req.kwargs[k] = req.params[k]

\* The view ran behind two decorators, with the two path parameters and
\* the two attachments.
C12_Witness ==
    /\ req.chain = <<"conference_is_open", "user_is_member_of_org">>
    /\ req.calls = 1
    /\ req.params = ("conf" :> "c1") @@ ("org" :> "acme")
    /\ req.kwargs = ("conf" :> "c1") @@ ("org" :> "acme")
                    @@ ("_conf" :> "c1") @@ ("_org" :> "o1")


\* Two runs agree on whether the view is called, and with which kwargs.
SameView(a, b) ==
    /\ a.invoked <=> b.invoked
    /\ a.invoked => a.kwargs = b.kwargs

\* C13: against one store, two orders of the same decorators either both
\* reach the view, with the same kwargs, or both do not; and a decorator
\* decides alike on the kwargs it is handed and on the bare path
\* parameters, whatever earlier decorators attached.  Stated of the chain
\* of the request in hand, and of every pair of decorators.
C13_AnyOrder ==
    /\ req.state = "guards"
       => /\ \A ch \in Orderings(Range(req.chain)) :
                 SameView(RunChain(req.chain, 1, req.user, req.params),
                          RunChain(ch, 1, req.user, req.params))
          /\ req.pc <= Len(req.chain)
             => Decorator(req.chain[req.pc], req.user, req.kwargs)
                = Decorator(req.chain[req.pc], req.user, req.params)
    /\ req.state = "idle"
       => \A st \in {x \in SUBSET Guards : Cardinality(x) \in {1, 2}} :
             \A u \in Users, kw \in KwargsOver(UNION {Required(g) : g \in st}) :
                \A ch1 \in Orderings(st), ch2 \in Orderings(st) :
                   SameView(RunChain(ch1, 1, u, kw), RunChain(ch2, 1, u, kw))

\* The view ran behind task_is_open then conference_is_open, and the
\* other order reaches it too, with the same kwargs.
C13_Witness ==
    /\ req.chain = <<"task_is_open", "conference_is_open">>
    /\ req.calls = 1
    /\ LET b == RunChain(<<"conference_is_open", "task_is_open">>, 1,
                         req.user, req.params)
       IN  /\ b.invoked
           /\ b.kwargs = req.kwargs


\* C14: a decorator, whether it passes, fails with NotFound or fails with
\* Forbidden, leaves every table of the store as it was; it changes the
\* request alone.
C14_StoreUnchanged ==
    [][\A g \in Guards :
          Ran(g) => /\ conferences' = conferences
                    /\ organizations' = organizations
                    /\ tasks' = tasks
                    /\ submissions' = submissions
                    /\ req' # req]_vars

\* The owner, who is no member, went through both org decorators to the
\* view, and the members of the org are as they were.
C14_Witness ==
    /\ req.chain = <<"user_owns_org", "user_is_member_of_org">>
    /\ req.calls = 1
    /\ req.user = "U1"
    /\ req.kwargs["_org"] = "o1"
    /\ organizations["o1"].members = {"U2", "U3"}


\* Where the first decorator passes, the second passes with the same
\* attachment under key.
Stronger(first, second, key, user, kwargs) ==
    LET a == Decorator(first, user, kwargs)
        b == Decorator(second, user, kwargs)
    IN  a.kind = "pass"
        => /\ b.kind = "pass"
           /\ b.attach[key] = a.attach[key]

\* C17: where user_owns_org passes, user_is_member_of_org passes for the
\* same request with the same _org; where user_is_active_participant
\* passes, user_is_participant passes with the same _valid_orgs.  Stated of
\* the request in hand and, between requests, of every user and kwargs.
C17_Strength ==
    LET Both(u, kw) ==
            /\ Stronger("user_owns_org", "user_is_member_of_org", "_org",
                        u, kw)
            /\ Stronger("user_is_active_participant", "user_is_participant",
                        "_valid_orgs", u, kw)
    IN  IF req.state = "idle"
        THEN \A u \in Users, kw \in KwargsOver({"org", "conf"}) : Both(u, kw)
        ELSE Both(req.user, req.params)

\* The owner of the org under c2, who is no member of it, went through
\* user_owns_org and then user_is_member_of_org with the same _org.
C17_Witness ==
    /\ req.chain = <<"user_owns_org", "user_is_member_of_org">>
    /\ req.calls = 1
    /\ req.user = organizations["o2"].owner
    /\ req.user \notin organizations["o2"].members
    /\ req.params = ("conf" :> "c2") @@ ("org" :> "acme")
    /\ req.kwargs["_org"] = "o2"

\* C18: a decorator that passes for conf has attached only rows of that
\* conference: the org named, with the user its owner or member; orgs of
\* the conference the user belongs to; submissions and the task of the
\* conference.  What the user is in an org of another conference counts for
\* nothing, also when that org has the same shortname.
C18_ConferenceScope ==
    [][\A g \in Guards :
          (Ran(g) /\ req'.state = "guards")
          => LET c == req.kwargs["conf"]
                 kw == req'.kwargs
                 Mine(o) == /\ organizations[o].conference = c
                            /\ \/ organizations[o].owner = req.user
                               \/ req.user \in organizations[o].members
             IN  /\ c \in DOMAIN conferences
                 /\ g \in {"user_is_member_of_org", "user_owns_org"}
                    => /\ Mine(kw["_org"])
                       /\ organizations[kw["_org"]].shortname = req.kwargs["org"]
                 /\ g \in {"user_is_participant", "user_is_active_participant"}
                    => /\ kw["_valid_orgs"] # {}
                       /\ \A o \in kw["_valid_orgs"] : Mine(o)
                 /\ g = "user_is_active_participant"
                    => \A s \in kw["_subs"] : tasks[s.task].conference = c
                 /\ g = "user_may_edit_submission"
                    => /\ kw["_sub"] \in submissions
                       /\ tasks[kw["_sub"].task].conference = c
                       /\ kw["_sub"].runtag = req.kwargs["runtag"]
                 /\ g = "task_is_open"
                    => /\ tasks[kw["_task"]].conference = c
                       /\ tasks[kw["_task"]].shortname = req.kwargs["task"]
                       /\ kw["_conf"] = c
                 /\ g = "conference_is_open" => kw["_conf"] = c]_vars

\* A member of acme under c1, who is nothing in acme under c2, asked for
\* acme under c2 and was turned away.
C18_Witness ==
    /\ req.chain = <<"user_is_member_of_org">>
    /\ req.state = "done"
    /\ req.params = ("conf" :> "c2") @@ ("org" :> "acme")
    /\ req.user \in organizations["o1"].members
    /\ req.user \notin organizations["o2"].members
    /\ req.user # organizations["o2"].owner
    /\ req.result =
           [kind |-> "Forbidden", reason |-> "User is not member of org"]


\* What a decorator checks, asked of the store as it is now.
GuardHolds(g, user, kwargs) ==
    CASE g = "user_is_member_of_org" ->
             \E o \in OrgIds :
                 /\ organizations[o].shortname = kwargs["org"]
                 /\ organizations[o].conference = kwargs["conf"]
                 /\ \/ organizations[o].owner = user
                    \/ user \in organizations[o].members
      [] g = "user_owns_org" ->
             \E o \in OrgIds :
                 /\ organizations[o].shortname = kwargs["org"]
                 /\ organizations[o].conference = kwargs["conf"]
                 /\ organizations[o].owner = user
      [] g = "user_is_participant" -> BelongsTo(user, kwargs["conf"]) # {}
      [] g = "conference_is_open" ->
             /\ kwargs["conf"] \in DOMAIN conferences
             /\ ~conferences[kwargs["conf"]].complete
      [] g = "task_is_open" ->
             \E k \in TaskIds :
                 /\ tasks[k].shortname = kwargs["task"]
                 /\ tasks[k].conference = kwargs["conf"]
                 /\ tasks[k].task_open
      [] OTHER -> FALSE

\* Worker w's step takes its request past the decorator it was at.
Passes(w) ==
    /\ req[w].state = "guards"
    /\ req[w].pc <= Len(req[w].chain)
    /\ req'[w].pc = req[w].pc + 1

\* Worker w's step calls the view.
Invokes(w) ==
    /\ req[w].state = "guards"
    /\ req'[w].calls = req[w].calls + 1

\* C15: with several requests in hand and the tables changing under them,
\* a decorator that lets a request past does so only if what it checks
\* holds in the store at that instant; and when the view of a request is
\* called with no table changed since the request came in, what every
\* decorator of its chain checks holds in the store at that moment.  (A
\* change after the check is not covered: C15_Witness has such a view.)
C15_Toctou ==
    [][\A w \in Workers :
          /\ Passes(w) =>
                 GuardHolds(req[w].chain[req[w].pc], req[w].user,
                            req[w].params)
          /\ (Invokes(w) /\ req[w].clean) =>
                 \A i \in 1..Len(req[w].chain) :
                     GuardHolds(req[w].chain[i], req[w].user, req[w].params)]_vars

\* Two views have been called: one with no change since its request came
\* in, what its chain checks holding now; the other after a change, and
\* what a decorator of its chain checked no longer holds.
C15_Witness ==
    \E w, v \in Workers :
        /\ w # v
        /\ req[w].calls = 1 /\ req[w].clean
        /\ \A i \in 1..Len(req[w].chain) :
               GuardHolds(req[w].chain[i], req[w].user, req[w].params)
        /\ req[v].calls = 1 /\ ~req[v].clean
        /\ req[v].chain = <<"conference_is_open", "user_is_member_of_org">>
        /\ \E i \in 1..Len(req[v].chain) :
               ~GuardHolds(req[v].chain[i], req[v].user, req[v].params)

\* How the request of worker w ended is what its chain makes of its user
\* and path parameters against the store as it is now.
OutcomeOfInputs(w) ==
    LET run == RunChain(req[w].chain, 1, req[w].user, req[w].params)
    IN  /\ req[w].result = run.result
        /\ req[w].calls = (IF run.invoked THEN 1 ELSE 0)
        /\ run.invoked => req[w].kwargs = run.kwargs

\* C16: a step of one request leaves every other request as it was; a
\* request that ended with no table changed since it came in ended as its
\* chain decides from its user, its path parameters and the store alone;
\* so two such requests with the same user, path parameters and chain
\* ended alike, with the same kwargs.
C16_NoSharedState ==
    [][/\ \A w \in Workers :
              (req'[w] # req[w] /\ store' = store)
              => \A v \in Workers \ {w} : req'[v] = req[v]
       /\ \A w \in Workers :
              (req'[w].state = "done" /\ req'[w].clean) => OutcomeOfInputs(w)'
       /\ \A w, v \in Workers :
              (/\ req'[w].state = "done" /\ req'[w].clean
               /\ req'[v].state = "done" /\ req'[v].clean
               /\ req'[w].user = req'[v].user
               /\ req'[w].params = req'[v].params
               /\ req'[w].chain = req'[v].chain)
              => /\ req'[w].result = req'[v].result
                 /\ req'[w].calls = req'[v].calls
                 /\ req'[w].kwargs = req'[v].kwargs]_vars

\* Two requests of the same user, with the same path parameters and chain,
\* both ended with the view called and no table changed meanwhile.
C16_Witness ==
    \E w, v \in Workers :
        /\ w # v
        /\ req[w].state = "done" /\ req[w].clean /\ req[w].calls = 1
        /\ req[v].state = "done" /\ req[v].clean /\ req[v].calls = 1
        /\ req[w].user = req[v].user
        /\ req[w].params = req[v].params
        /\ req[w].chain = req[v].chain
        /\ Len(req[w].chain) = 2

=============================================================================
